---- MODULE Spec2Model ----
(***************************************************************************)
(* Model of server.py: the log parser (parse_logs, LOG_LINE_REGEX) and the *)
(* request handler SimpleHTTPRequestHandler.do_GET with its process-wide   *)
(* diff_cache.  Text is a sequence of one-character strings, so that       *)
(* strip(), the regular expression, int()/float(), join() and splitlines() *)
(* are computed character by character as the code computes them.          *)
(***************************************************************************)
EXTENDS Integers, Sequences, FiniteSets, TLC

VARIABLES
    fs,          \* the directory LOG_DIR: file name -> [mtime, lines] or NoFile
    diff_cache,  \* the global dict diff_cache: <<run_id, compare_to>> -> text
    last,        \* the last request served and its response
    lastDiff,    \* <<run_id, compare_to>> -> body of the latest /diff response for it
    steps,       \* number of filesystem changes and requests so far
    line,        \* one raw log line, as written by the training script
    fields,      \* the fields the line was written from
    sample,      \* parse_line's result for line
    logfile,     \* the lines of one log file (f.readlines())
    parsed       \* parse_file's result for logfile

vars == <<fs, diff_cache, last, lastDiff, steps, line, fields, sample, logfile, parsed>>

----------------------------------------------------------------------------
(* Bounds of the model *)

MaxTime == 2     \* modification times are 1..MaxTime
MaxSteps == 3    \* filesystem changes plus requests in one behaviour
MaxLines == 4    \* lines of a log file in the extractor's specification

----------------------------------------------------------------------------
(* Characters and text *)

\* Python's None, a failed re.match, and a raised ValueError.  All values that
\* may stand where a record stands are records, so that they compare.
None == [none |-> TRUE]
NoMatch == [nomatch |-> TRUE]
ValueError == [raised |-> "ValueError"]

Digits == {"0", "1", "2", "3", "4", "5", "6", "7", "8", "9"}

Letters ==
    {"a", "b", "c", "d", "e", "f", "g", "h", "i", "j", "k", "l", "m",
     "n", "o", "p", "q", "r", "s", "t", "u", "v", "w", "x", "y", "z",
     "A", "B", "C", "D", "E", "F", "G", "H", "I", "J", "K", "L", "M",
     "N", "O", "P", "Q", "R", "S", "T", "U", "V", "W", "X", "Y", "Z"}

\* \w of the regular expression
WordChars == Letters \cup Digits \cup {"_"}

\* [\d\.] of the regular expression
NumChars == Digits \cup {"."}

\* [\d\.n] of the regular expression (the step_avg group)
AvgChars == Digits \cup {".", "n"}

\* the characters str.strip() removes
Whitespace == {" ", "\t", "\n", "\r"}

RECURSIVE Flatten(_)
\* the Python string a character sequence stands for
Flatten(s) == IF s = <<>> THEN "" ELSE Head(s) \o Flatten(Tail(s))

RECURSIVE Join(_)
\* ''.join(list of texts)
Join(ls) == IF ls = <<>> THEN <<>> ELSE Head(ls) \o Join(Tail(ls))

\* the element of a one-element set.  The({e(x) : x \in {v}}) is e(v) with v
\* computed once: an assignment to a local variable x that is then used
The(S) == CHOOSE r \in S : TRUE

RECURSIVE LStrip(_)
LStrip(s) == IF s # <<>> /\ Head(s) \in Whitespace THEN LStrip(Tail(s)) ELSE s

RECURSIVE RStrip(_)
RStrip(s) ==
    IF s # <<>> /\ s[Len(s)] \in Whitespace THEN RStrip(SubSeq(s, 1, Len(s) - 1)) ELSE s

\* str.strip()
Strip(s) == RStrip(LStrip(s))

\* '=' * 100
SentinelLen == 100
Sentinel == [i \in 1..SentinelLen |-> "="]

RECURSIVE RunEnd(_, _, _)
\* greedy character class: the first position at or after i whose character is not in C
RunEnd(s, i, C) == IF i <= Len(s) /\ s[i] \in C THEN RunEnd(s, i + 1, C) ELSE i

\* the literal lit stands at position i of s
LitAt(s, i, lit) == i + Len(lit) - 1 <= Len(s) /\ SubSeq(s, i, i + Len(lit) - 1) = lit

----------------------------------------------------------------------------
(* int() and float() *)

DigitVal(c) == CHOOSE n \in 0..9 : ToString(n) = c

RECURSIVE int(_)
\* int(s) for s matched by \d+
int(s) == IF s = <<>> THEN 0 ELSE int(SubSeq(s, 1, Len(s) - 1)) * 10 + DigitVal(s[Len(s)])

RECURSIVE DropZeros(_)
DropZeros(s) == IF s # <<>> /\ s[Len(s)] = "0" THEN DropZeros(SubSeq(s, 1, Len(s) - 1)) ELSE s

\* float(s) for s over [\d\.n]: ValueError unless s is digits with at most one
\* "." and at least one digit.  The value is the decimal
\* digits / 10^exponent, with trailing fractional zeros dropped.
float(s) ==
    LET dots == {i \in 1..Len(s) : s[i] = "."}
        digs == {i \in 1..Len(s) : s[i] \in Digits}
    IN IF Cardinality(dots) > 1 \/ digs = {} \/ Cardinality(dots) + Cardinality(digs) # Len(s)
       THEN ValueError
       ELSE IF dots = {}
       THEN [digits |-> int(s), exponent |-> 0]
       ELSE LET d == CHOOSE i \in dots : TRUE
                whole == SubSeq(s, 1, d - 1)
                frac == DropZeros(SubSeq(s, d + 1, Len(s)))
            IN [digits |-> int(whole \o frac), exponent |-> Len(frac)]

----------------------------------------------------------------------------
(* LOG_LINE_REGEX *)

L_step == <<"s", "t", "e", "p", ":">>
L_train_time == <<" ", "t", "r", "a", "i", "n", "_", "t", "i", "m", "e", ":">>
L_ms_step_avg == <<"m", "s", " ", "s", "t", "e", "p", "_", "a", "v", "g", ":">>
L_ms == <<"m", "s">>

\* " train_time:([\d\.]+)ms step_avg:([\d\.n]+)ms" at position i: the groups 5 and 6
MatchTail(s, i) ==
    LET t1 == i + Len(L_train_time)
        t2 == RunEnd(s, t1, NumChars)
        a1 == t2 + Len(L_ms_step_avg)
        a2 == RunEnd(s, a1, AvgChars)
    IN IF /\ LitAt(s, i, L_train_time)
          /\ t2 > t1
          /\ LitAt(s, t2, L_ms_step_avg)
          /\ a2 > a1
          /\ LitAt(s, a2, L_ms)
       THEN [g5 |-> SubSeq(s, t1, t2 - 1), g6 |-> SubSeq(s, a1, a2 - 1)]
       ELSE NoMatch

\* one iteration of "(?: [\w_]+:[\d\.]+)" at position i: its end, or 0
ExtraEnd(s, i) ==
    LET n1 == i + 1
        n2 == RunEnd(s, n1, WordChars)
        v1 == n2 + 1
        v2 == RunEnd(s, v1, NumChars)
    IN IF /\ LitAt(s, i, <<" ">>)
          /\ n2 > n1
          /\ LitAt(s, n2, <<":">>)
          /\ v2 > v1
       THEN v2
       ELSE 0

RECURSIVE MatchExtras(_, _)
\* "(?: [\w_]+:[\d\.]+)*" followed by the tail: greedy, one more iteration is
\* tried first and given up when the rest does not match after it
MatchExtras(s, i) ==
    The({(The({(IF more # NoMatch THEN more ELSE MatchTail(s, i))
               : more \in {IF e # 0 THEN MatchExtras(s, e) ELSE NoMatch}}))
         : e \in {ExtraEnd(s, i)}})

\* LOG_LINE_REGEX.match(s): the six groups, or NoMatch.  match() anchors at
\* the start only.  Every greedy class is followed by a character outside the
\* class, so it takes the whole run of its characters.
LOG_LINE_REGEX(s) ==
    LET s1 == Len(L_step) + 1
        s2 == RunEnd(s, s1, Digits)
        t1 == s2 + 1
        t2 == RunEnd(s, t1, Digits)
        n1 == t2 + 1
        n2 == RunEnd(s, n1, WordChars)
        v1 == n2 + 1
        v2 == RunEnd(s, v1, NumChars)
    IN The({(IF rest = NoMatch
             THEN NoMatch
             ELSE [g1 |-> SubSeq(s, s1, s2 - 1),
                   g2 |-> SubSeq(s, t1, t2 - 1),
                   g3 |-> SubSeq(s, n1, n2 - 1),
                   g4 |-> SubSeq(s, v1, v2 - 1),
                   g5 |-> rest.g5,
                   g6 |-> rest.g6])
            : rest \in {IF /\ LitAt(s, 1, L_step)
                           /\ s2 > s1
                           /\ LitAt(s, s2, <<"/">>)
                           /\ t2 > t1
                           /\ LitAt(s, t2, <<" ">>)
                           /\ n2 > n1
                           /\ LitAt(s, n2, <<":">>)
                           /\ v2 > v1
                        THEN MatchExtras(s, v2)
                        ELSE NoMatch}})

----------------------------------------------------------------------------
(* parse_logs: one line, one file, the directory *)

\* the body of "if match:" for one stripped line of the metrics region: the
\* sample appended to data, NoMatch when the line is skipped, ValueError when
\* a conversion raises
ParseLine(l) ==
    The({(IF match = NoMatch
          THEN NoMatch
          ELSE The({(IF ValueError \in {v.metric_value, v.train_time, v.step_avg}
                     THEN ValueError
                     ELSE [step |-> v.step,
                           metric_name |-> v.metric_name,
                           metric_value |-> v.metric_value,
                           train_time |-> v.train_time,
                           step_avg |-> v.step_avg])
                    : v \in {[step |-> int(match.g1),
                              total_steps |-> int(match.g2),
                              metric_name |-> Flatten(match.g3),
                              metric_value |-> float(match.g4),
                              train_time |-> float(match.g5),
                              step_avg |-> IF match.g6 = <<"n", "a", "n">> THEN None ELSE float(match.g6)]}}))
         : match \in {LOG_LINE_REGEX(Strip(l))}})

RECURSIVE ExtractLines_Stripped(_, _, _, _)
\* ExtractLines appending the stripped line to code_lines
ExtractLines_Stripped(lines, in_code, code_lines, data) ==
    IF lines = <<>>
    THEN [code |-> Join(code_lines), data |-> data]
    ELSE LET l == Head(lines)
         IN IF Strip(l) = Sentinel
            THEN ExtractLines_Stripped(Tail(lines), ~in_code, code_lines, data)
            ELSE IF in_code
            THEN ExtractLines_Stripped(Tail(lines), in_code, Append(code_lines, Strip(l)), data)
            ELSE The({(IF smp = ValueError
                       THEN ValueError
                       ELSE ExtractLines_Stripped(Tail(lines), in_code, code_lines,
                               IF smp = NoMatch THEN data ELSE Append(data, smp)))
                      : smp \in {ParseLine(l)}})

RECURSIVE ExtractLines_LastBlock(_, _, _, _)
\* ExtractLines starting code_lines afresh at every sentinel
ExtractLines_LastBlock(lines, in_code, code_lines, data) ==
    IF lines = <<>>
    THEN [code |-> Join(code_lines), data |-> data]
    ELSE LET l == Head(lines)
         IN IF Strip(l) = Sentinel
            THEN ExtractLines_LastBlock(Tail(lines), ~in_code, <<>>, data)
            ELSE IF in_code
            THEN ExtractLines_LastBlock(Tail(lines), in_code, Append(code_lines, l), data)
            ELSE The({(IF smp = ValueError
                       THEN ValueError
                       ELSE ExtractLines_LastBlock(Tail(lines), in_code, code_lines,
                               IF smp = NoMatch THEN data ELSE Append(data, smp)))
                      : smp \in {ParseLine(l)}})

RECURSIVE ExtractLines_SamplesInCode(_, _, _, _)
\* ExtractLines matching the lines of a code block against LOG_LINE_REGEX as well
ExtractLines_SamplesInCode(lines, in_code, code_lines, data) ==
    IF lines = <<>>
    THEN [code |-> Join(code_lines), data |-> data]
    ELSE LET l == Head(lines)
         IN IF Strip(l) = Sentinel
            THEN ExtractLines_SamplesInCode(Tail(lines), ~in_code, code_lines, data)
            ELSE The({(IF smp = ValueError
                       THEN ValueError
                       ELSE ExtractLines_SamplesInCode(Tail(lines), in_code,
                               IF in_code THEN Append(code_lines, l) ELSE code_lines,
                               IF smp = NoMatch THEN data ELSE Append(data, smp)))
                      : smp \in {ParseLine(l)}})

RECURSIVE ExtractLines(_, _, _, _)
\* the loop "for line in lines" from the state (in_code, code_lines, data)
ExtractLines(lines, in_code, code_lines, data) ==
    IF lines = <<>>
    THEN [code |-> Join(code_lines), data |-> data]
    ELSE LET l == Head(lines)
         IN IF Strip(l) = Sentinel
            THEN ExtractLines(Tail(lines), ~in_code, code_lines, data)
            ELSE IF in_code
            THEN ExtractLines(Tail(lines), in_code, Append(code_lines, l), data)
            ELSE The({(IF smp = ValueError
                       THEN ValueError
                       ELSE ExtractLines(Tail(lines), in_code, code_lines,
                               IF smp = NoMatch THEN data ELSE Append(data, smp)))
                      : smp \in {ParseLine(l)}})

\* the body of "with open(filepath, 'r') as f": code and data of one file
ParseFile(lines) == ExtractLines(lines, FALSE, <<>>, <<>>)

----------------------------------------------------------------------------
(* str.splitlines(keepends=True) and difflib.unified_diff *)

\* the end of the first line of s: past its "\n", "\r" or "\r\n", or Len(s)
LineEnd(s) ==
    LET terms == {i \in 1..Len(s) : s[i] \in {"\n", "\r"}}
    IN IF terms = {}
       THEN Len(s)
       ELSE LET t == CHOOSE i \in terms : \A j \in terms : i <= j
            IN IF s[t] = "\r" /\ t < Len(s) /\ s[t + 1] = "\n" THEN t + 1 ELSE t

RECURSIVE splitlines(_)
\* s.splitlines(keepends=True)
splitlines(s) ==
    IF s = <<>>
    THEN <<>>
    ELSE The({(<<SubSeq(s, 1, e)>> \o splitlines(SubSeq(s, e + 1, Len(s))))
              : e \in {LineEnd(s)}})

\* SequenceMatcher.find_longest_match(alo, ahi, blo, bhi) with 0-based
\* half-open ranges: the longest block a[i:i+k] = b[j:j+k], the one starting
\* earliest in a and then earliest in b; <<alo, blo, 0>> when nothing matches
find_longest_match(a, b, alo, ahi, blo, bhi) ==
    LET better(t, u) == \/ t[3] > u[3]
                        \/ t[3] = u[3] /\ t[1] < u[1]
                        \/ t[3] = u[3] /\ t[1] = u[1] /\ t[2] <= u[2]
    IN The({(IF blocks = {}
             THEN <<alo, blo, 0>>
             ELSE CHOOSE t \in blocks : \A u \in blocks : better(t, u))
            : blocks \in {{t \in (alo..ahi) \X (blo..bhi) \X (1..(ahi - alo)) :
                              /\ t[1] + t[3] <= ahi
                              /\ t[2] + t[3] <= bhi
                              /\ \A d \in 1..t[3] : a[t[1] + d] = b[t[2] + d]}}})

RECURSIVE matching_blocks(_, _, _, _, _, _)
\* SequenceMatcher.get_matching_blocks, without the final <<la, lb, 0>>
matching_blocks(a, b, alo, ahi, blo, bhi) ==
    The({(IF m[3] = 0
          THEN <<>>
          ELSE (IF alo < m[1] /\ blo < m[2]
                THEN matching_blocks(a, b, alo, m[1], blo, m[2])
                ELSE <<>>)
               \o <<m>>
               \o (IF m[1] + m[3] < ahi /\ m[2] + m[3] < bhi
                   THEN matching_blocks(a, b, m[1] + m[3], ahi, m[2] + m[3], bhi)
                   ELSE <<>>))
         : m \in {find_longest_match(a, b, alo, ahi, blo, bhi)}})

RECURSIVE opcodes(_, _, _)
\* SequenceMatcher.get_opcodes from position <<i, j>> over the remaining blocks
opcodes(blocks, i, j) ==
    IF blocks = <<>>
    THEN <<>>
    ELSE The({(LET ai == m[1]
                   bj == m[2]
                   size == m[3]
                   tag == IF i < ai /\ j < bj THEN "replace"
                          ELSE IF i < ai THEN "delete"
                          ELSE IF j < bj THEN "insert"
                          ELSE ""
               IN (IF tag # ""
                   THEN <<[tag |-> tag, i1 |-> i, i2 |-> ai, j1 |-> j, j2 |-> bj]>>
                   ELSE <<>>)
                  \o (IF size > 0
                      THEN <<[tag |-> "equal", i1 |-> ai, i2 |-> ai + size,
                              j1 |-> bj, j2 |-> bj + size]>>
                      ELSE <<>>)
                  \o The({(opcodes(Tail(blocks), at[1], at[2]))
                          : at \in {<<ai + size, bj + size>>}}))
              : m \in {Head(blocks)}})

\* difflib._format_range_unified
format_range_unified(start, stop) ==
    LET length == stop - start
    IN IF length = 1
       THEN ToString(start + 1)
       ELSE ToString(IF length = 0 THEN start ELSE start + 1) \o "," \o ToString(length)

RECURSIVE Prefixed(_, _, _, _)
\* prefix + line for the lines seq[lo:hi]
Prefixed(prefix, seq, lo, hi) ==
    IF lo >= hi THEN "" ELSE prefix \o Flatten(seq[lo + 1]) \o Prefixed(prefix, seq, lo + 1, hi)

RECURSIVE HunkLines(_, _, _)
\* the lines of one hunk: ' ', '-' and '+' lines for its opcodes
HunkLines(codes, a, b) ==
    IF codes = <<>>
    THEN ""
    ELSE The({((IF c.tag = "equal"
                THEN Prefixed(" ", a, c.i1, c.i2)
                ELSE (IF c.tag \in {"replace", "delete"} THEN Prefixed("-", a, c.i1, c.i2) ELSE "")
                     \o (IF c.tag \in {"replace", "insert"} THEN Prefixed("+", b, c.j1, c.j2) ELSE ""))
               \o HunkLines(Tail(codes), a, b))
              : c \in {Head(codes)}})

\* the lines of context around a change (unified_diff's n)
ContextLines == 3

\* ''.join(difflib.unified_diff(a, b, fromfile=fromfile, tofile=tofile)):
\* nothing when the only opcode is "equal" (or there is none); else the two
\* file headers and the hunk.  The leading and the trailing "equal" opcode
\* are cut to ContextLines lines; a run of more than 2 * ContextLines equal
\* lines between two changes would open a second hunk, which code blocks of
\* at most 2 * ContextLines lines never have.
unified_diff(a, b, fromfile, tofile) ==
    LET trimFirst(c) == IF c.tag = "equal"
                        THEN [c EXCEPT !.i1 = IF c.i2 - ContextLines > c.i1 THEN c.i2 - ContextLines ELSE c.i1,
                                       !.j1 = IF c.j2 - ContextLines > c.j1 THEN c.j2 - ContextLines ELSE c.j1]
                        ELSE c
        trimLast(c) == IF c.tag = "equal"
                       THEN [c EXCEPT !.i2 = IF c.i1 + ContextLines < c.i2 THEN c.i1 + ContextLines ELSE c.i2,
                                      !.j2 = IF c.j1 + ContextLines < c.j2 THEN c.j1 + ContextLines ELSE c.j2]
                       ELSE c
        grouped(codes) == [x \in 1..Len(codes) |-> IF x = 1 THEN trimFirst(codes[x])
                                                   ELSE IF x = Len(codes) THEN trimLast(codes[x])
                                                   ELSE codes[x]]
        text(group) == "--- " \o fromfile \o "\n"
                       \o "+++ " \o tofile \o "\n"
                       \o "@@ -" \o format_range_unified(group[1].i1, group[Len(group)].i2)
                       \o " +" \o format_range_unified(group[1].j1, group[Len(group)].j2) \o " @@\n"
                       \o HunkLines(group, a, b)
    IN The({(IF Len(codes) = 0 \/ (Len(codes) = 1 /\ codes[1].tag = "equal")
             THEN ""
             ELSE The({(text(group))
                       : group \in {grouped(codes)}}))
            : codes \in {opcodes(matching_blocks(a, b, 0, Len(a), 0, Len(b)) \o <<<<Len(a), Len(b), 0>>>>, 0, 0)}})

----------------------------------------------------------------------------
(* The directory LOG_DIR *)

NoFile == [absent |-> TRUE]

FileA == <<"a", ".", "t", "x", "t">>
FileB == <<"b", ".", "t", "x", "t">>
FileNames == {FileA, FileB}

Times == 1..MaxTime

MetricLine == <<"s", "t", "e", "p", ":", "1", "/", "1", "0", " ", "v", "a", "l", "_", "l", "o", "s", "s", ":", "2", ".", "5", " ", "t", "r", "a", "i", "n", "_", "t", "i", "m", "e", ":", "1", "0", "0", ".", "0", "m", "s", " ", "s", "t", "e", "p", "_", "a", "v", "g", ":", "5", "0", ".", "0", "m", "s", "\n">>
LineX == <<"x", "\n">>
LineY == <<"y", "\n">>
SentinelLine == Sentinel \o <<"\n">>

\* log files: without a code block, with the code "x\n", with the code "x\ny\n"
LogNoCode == <<MetricLine>>
LogX == <<SentinelLine, LineX, SentinelLine, MetricLine>>
LogXY == <<MetricLine, SentinelLine, LineX, LineY, SentinelLine>>
Contents == {LogNoCode, LogX, LogXY}

\* the orders os.listdir may return the present files in
Listings(dir) ==
    LET present == {f \in DOMAIN dir : dir[f] # NoFile}
        n == Cardinality(present)
    IN {l \in [1..n -> present] : \A i, j \in 1..n : i # j => l[i] # l[j]}

\* ParseFile of every content a file of the directory has (computed once)
ParsedContents == [c \in Contents |-> ParseFile(c)]

L_txt == <<".", "t", "x", "t">>

\* filename.endswith('.txt')
endswith(filename, suffix) ==
    /\ Len(filename) >= Len(suffix)
    /\ SubSeq(filename, Len(filename) - Len(suffix) + 1, Len(filename)) = suffix

\* datetime.fromtimestamp(mtime).strftime('%Y-%m-%d %H:%M:%S'), for the
\* modification times 0..9 seconds after the epoch, in UTC
strftime(mtime) == "1970-01-01 00:00:0" \o ToString(mtime)

\* the body of "for filename in os.listdir(LOG_DIR)" for one file: <<run>>
\* for the run appended to runs, <<>> for a file that is skipped,
\* <<ValueError>> when parsing the file raises
ParseRun(dir, filename) ==
    IF ~endswith(filename, L_txt)
    THEN <<>>
    ELSE LET run_id == Flatten(SubSeq(filename, 1, Len(filename) - 4))
             mtime == dir[filename].mtime
         IN The({(IF parsedFile = ValueError
                  THEN <<ValueError>>
                  ELSE <<[run_id |-> run_id,
                          timestamp |-> strftime(mtime),
                          mtime |-> mtime,
                          code |-> parsedFile.code,
                          data |-> parsedFile.data]>>)
                 : parsedFile \in {ParsedContents[dir[filename].lines]}})

RECURSIVE ScanFiles(_, _)
\* the loop over os.listdir(LOG_DIR): the list runs before it is sorted
ScanFiles(dir, listing) ==
    IF listing = <<>> THEN <<>> ELSE ParseRun(dir, Head(listing)) \o ScanFiles(dir, Tail(listing))

\* runs left in the order of os.listdir
SortByMtimeDesc_Unsorted(runs) == runs

RECURSIVE SortByMtimeDesc(_)
\* runs.sort(key=lambda x: x['mtime'], reverse=True): stable, runs of equal
\* mtime keep their order
SortByMtimeDesc(runs) ==
    IF runs = <<>>
    THEN <<>>
    ELSE The({(LET r == runs[Len(runs)]
                   k == Cardinality({i \in 1..Len(sorted) : sorted[i].mtime >= r.mtime})
               IN SubSeq(sorted, 1, k) \o <<r>> \o SubSeq(sorted, k + 1, Len(sorted)))
              : sorted \in {SortByMtimeDesc(SubSeq(runs, 1, Len(runs) - 1))}})

\* parse_logs(), os.listdir returning listing: the sorted runs, or raised
\* when a conversion raised while a file was parsed
parse_logs(dir, listing) ==
    The({(IF \E i \in 1..Len(runs) : runs[i] = ValueError
          THEN [raised |-> TRUE, runs |-> <<>>]
          ELSE [raised |-> FALSE, runs |-> SortByMtimeDesc(runs)])
         : runs \in {ScanFiles(dir, listing)}})

----------------------------------------------------------------------------
(* SimpleHTTPRequestHandler.do_GET *)

\* d = {k: v}: the dict is replaced instead of extended
DictSet_Replace(d, k, v) == [x \in {k} |-> v]

\* d[k] = v on a dict
DictSet(d, k, v) == [x \in DOMAIN d \cup {k} |-> IF x = k THEN v ELSE d[x]]

EmptyDict == [x \in {} |-> ""]

\* next((i for i, run in enumerate(runs) if run['run_id'] == run_id), None),
\* counted from 1, 0 for None
IndexOf(runs, run_id) ==
    LET found == {i \in 1..Len(runs) : runs[i].run_id = run_id}
    IN IF found = {} THEN 0 ELSE CHOOSE i \in found : \A j \in found : i <= j

\* a request and the handler's variables when it returns; a query argument
\* that is absent is "" (parse_qs drops blank values, so none is "" itself)
Served(path, run_id, compare_to) ==
    [path |-> path, run_id |-> run_id, compare_to |-> compare_to,
     status |-> 0, content_type |-> "", body |-> "", json |-> <<>>,
     scanned |-> FALSE, raised |-> FALSE, runs |-> <<>>, index |-> 0, hit |-> FALSE,
     compare_label |-> "", prev_code |-> <<>>, current_code |-> <<>>]

NoRequest == Served("", "", "")

\* ComputeDiff taking runs[0], the newest run, as the first run
ComputeDiff_FirstNewest(runs, index, compare_to) ==
    LET previous == compare_to = "previous" /\ index < Len(runs)
        first == ~previous /\ compare_to = "first" /\ Len(runs) > 0
        compare_label == IF previous THEN "Previous Run"
                         ELSE IF first THEN "First Run"
                         ELSE "No Run to Compare"
        result(current_code, prev_code, diff) ==
            [compare_label |-> compare_label,
             prev_code |-> prev_code,
             current_code |-> current_code,
             diff_text |-> "Comparing Run " \o runs[index].run_id \o " to " \o compare_label
                           \o "\n\n"
                           \o (IF prev_code # <<>>
                               THEN (IF diff = "" THEN "No differences found." ELSE diff)
                               ELSE "No run available to compare.")]
    IN The({(The({(The({(result(current_code, prev_code, diff))
                        : diff \in {unified_diff(prev_code, current_code, compare_label, "Selected Run")}}))
                  : prev_code \in {IF previous THEN splitlines(runs[index + 1].code)
                                   ELSE IF first THEN splitlines(runs[1].code)
                                   ELSE <<>>}}))
            : current_code \in {splitlines(runs[index].code)}})

\* ComputeDiff comparing to the previous run unless compare_to is 'first'
ComputeDiff_DefaultPrevious(runs, index, compare_to) ==
    LET previous == compare_to # "first" /\ index < Len(runs)
        first == ~previous /\ compare_to = "first" /\ Len(runs) > 0
        compare_label == IF previous THEN "Previous Run"
                         ELSE IF first THEN "First Run"
                         ELSE "No Run to Compare"
        result(current_code, prev_code, diff) ==
            [compare_label |-> compare_label,
             prev_code |-> prev_code,
             current_code |-> current_code,
             diff_text |-> "Comparing Run " \o runs[index].run_id \o " to " \o compare_label
                           \o "\n\n"
                           \o (IF prev_code # <<>>
                               THEN (IF diff = "" THEN "No differences found." ELSE diff)
                               ELSE "No run available to compare.")]
    IN The({(The({(The({(result(current_code, prev_code, diff))
                        : diff \in {unified_diff(prev_code, current_code, compare_label, "Selected Run")}}))
                  : prev_code \in {IF previous THEN splitlines(runs[index + 1].code)
                                   ELSE IF first THEN splitlines(runs[Len(runs)].code)
                                   ELSE <<>>}}))
            : current_code \in {splitlines(runs[index].code)}})

\* ComputeDiff naming the label after compare_to, whether or not a baseline was used
ComputeDiff_LabelByMode(runs, index, compare_to) ==
    LET previous == compare_to = "previous" /\ index < Len(runs)
        first == ~previous /\ compare_to = "first" /\ Len(runs) > 0
        compare_label == IF compare_to = "previous" THEN "Previous Run"
                         ELSE IF compare_to = "first" THEN "First Run"
                         ELSE "No Run to Compare"
        result(current_code, prev_code, diff) ==
            [compare_label |-> compare_label,
             prev_code |-> prev_code,
             current_code |-> current_code,
             diff_text |-> "Comparing Run " \o runs[index].run_id \o " to " \o compare_label
                           \o "\n\n"
                           \o (IF prev_code # <<>>
                               THEN (IF diff = "" THEN "No differences found." ELSE diff)
                               ELSE "No run available to compare.")]
    IN The({(The({(The({(result(current_code, prev_code, diff))
                        : diff \in {unified_diff(prev_code, current_code, compare_label, "Selected Run")}}))
                  : prev_code \in {IF previous THEN splitlines(runs[index + 1].code)
                                   ELSE IF first THEN splitlines(runs[Len(runs)].code)
                                   ELSE <<>>}}))
            : current_code \in {splitlines(runs[index].code)}})

\* the "else" branch of "if cache_key in diff_cache": the variables
\* compare_label, prev_code, current_code and diff_text
ComputeDiff(runs, index, compare_to) ==
    LET previous == compare_to = "previous" /\ index < Len(runs)
        first == ~previous /\ compare_to = "first" /\ Len(runs) > 0
        compare_label == IF previous THEN "Previous Run"
                         ELSE IF first THEN "First Run"
                         ELSE "No Run to Compare"
        result(current_code, prev_code, diff) ==
            [compare_label |-> compare_label,
             prev_code |-> prev_code,
             current_code |-> current_code,
             diff_text |-> "Comparing Run " \o runs[index].run_id \o " to " \o compare_label
                           \o "\n\n"
                           \o (IF prev_code # <<>>
                               THEN (IF diff = "" THEN "No differences found." ELSE diff)
                               ELSE "No run available to compare.")]
    IN The({(The({(The({(result(current_code, prev_code, diff))
                        : diff \in {unified_diff(prev_code, current_code, compare_label, "Selected Run")}}))
                  : prev_code \in {IF previous THEN splitlines(runs[index + 1].code)
                                   ELSE IF first THEN splitlines(runs[Len(runs)].code)
                                   ELSE <<>>}}))
            : current_code \in {splitlines(runs[index].code)}})

\* DoDiff computing the diff anew on every request
DoDiff_NoMemo(scan, cache, q_run_id, q_compare_to) ==
    LET compare_to == IF q_compare_to = "" THEN "previous" ELSE q_compare_to
        req == Served("/diff", q_run_id, q_compare_to)
        runs == scan.runs
        cache_key == <<q_run_id, compare_to>>
        hit == cache_key \in DOMAIN cache
        text200(index) == [req EXCEPT !.status = 200, !.content_type = "text/plain",
                                      !.scanned = TRUE, !.runs = runs, !.index = index]
        missing == [resp |-> [req EXCEPT !.status = 400,
                                         !.body = "Bad Request: run_id parameter is missing."],
                    cache |-> cache]
        raised == [resp |-> [req EXCEPT !.scanned = TRUE, !.raised = TRUE], cache |-> cache]
        notFound == [resp |-> [text200(0) EXCEPT !.body = "Run ID not found."], cache |-> cache]
        cached(index) == [resp |-> [text200(index) EXCEPT !.body = cache[cache_key], !.hit = TRUE],
                          cache |-> cache]
        fresh(index) ==
            The({([resp |-> [text200(index) EXCEPT !.body = computed.diff_text,
                                                   !.compare_label = computed.compare_label,
                                                   !.prev_code = computed.prev_code,
                                                   !.current_code = computed.current_code],
                   cache |-> DictSet(cache, cache_key, computed.diff_text)])
                 : computed \in {ComputeDiff(runs, index, compare_to)}})
    IN IF q_run_id = "" THEN missing
       ELSE IF scan.raised THEN raised
       ELSE The({(IF index = 0 THEN notFound ELSE fresh(index))
                 : index \in {IndexOf(runs, q_run_id)}})

\* DoDiff consulting diff_cache before the run is looked up
DoDiff_CacheFirst(scan, cache, q_run_id, q_compare_to) ==
    LET compare_to == IF q_compare_to = "" THEN "previous" ELSE q_compare_to
        req == Served("/diff", q_run_id, q_compare_to)
        runs == scan.runs
        cache_key == <<q_run_id, compare_to>>
        hit == cache_key \in DOMAIN cache
        text200(index) == [req EXCEPT !.status = 200, !.content_type = "text/plain",
                                      !.scanned = TRUE, !.runs = runs, !.index = index]
        missing == [resp |-> [req EXCEPT !.status = 400,
                                         !.body = "Bad Request: run_id parameter is missing."],
                    cache |-> cache]
        raised == [resp |-> [req EXCEPT !.scanned = TRUE, !.raised = TRUE], cache |-> cache]
        notFound == [resp |-> [text200(0) EXCEPT !.body = "Run ID not found."], cache |-> cache]
        cached(index) == [resp |-> [text200(index) EXCEPT !.body = cache[cache_key], !.hit = TRUE],
                          cache |-> cache]
        fresh(index) ==
            The({([resp |-> [text200(index) EXCEPT !.body = computed.diff_text,
                                                   !.compare_label = computed.compare_label,
                                                   !.prev_code = computed.prev_code,
                                                   !.current_code = computed.current_code],
                   cache |-> DictSet(cache, cache_key, computed.diff_text)])
                 : computed \in {ComputeDiff(runs, index, compare_to)}})
    IN IF q_run_id = "" THEN missing
       ELSE IF scan.raised THEN raised
       ELSE The({(IF hit THEN cached(index)
                  ELSE IF index = 0 THEN notFound
                  ELSE fresh(index))
                 : index \in {IndexOf(runs, q_run_id)}})

\* DoDiff looking the run up without checking that run_id is given
DoDiff_ScanFirst(scan, cache, q_run_id, q_compare_to) ==
    LET compare_to == IF q_compare_to = "" THEN "previous" ELSE q_compare_to
        req == Served("/diff", q_run_id, q_compare_to)
        runs == scan.runs
        cache_key == <<q_run_id, compare_to>>
        hit == cache_key \in DOMAIN cache
        text200(index) == [req EXCEPT !.status = 200, !.content_type = "text/plain",
                                      !.scanned = TRUE, !.runs = runs, !.index = index]
        missing == [resp |-> [req EXCEPT !.status = 400,
                                         !.body = "Bad Request: run_id parameter is missing."],
                    cache |-> cache]
        raised == [resp |-> [req EXCEPT !.scanned = TRUE, !.raised = TRUE], cache |-> cache]
        notFound == [resp |-> [text200(0) EXCEPT !.body = "Run ID not found."], cache |-> cache]
        cached(index) == [resp |-> [text200(index) EXCEPT !.body = cache[cache_key], !.hit = TRUE],
                          cache |-> cache]
        fresh(index) ==
            The({([resp |-> [text200(index) EXCEPT !.body = computed.diff_text,
                                                   !.compare_label = computed.compare_label,
                                                   !.prev_code = computed.prev_code,
                                                   !.current_code = computed.current_code],
                   cache |-> DictSet(cache, cache_key, computed.diff_text)])
                 : computed \in {ComputeDiff(runs, index, compare_to)}})
    IN IF scan.raised THEN raised
       ELSE The({(IF index = 0 THEN notFound
                  ELSE IF hit THEN cached(index)
                  ELSE fresh(index))
                 : index \in {IndexOf(runs, q_run_id)}})

\* the branch "elif parsed_path.path == '/diff'": the response and the new
\* diff_cache for the scan result scan.  q_run_id and q_compare_to are the
\* query's arguments.
DoDiff(scan, cache, q_run_id, q_compare_to) ==
    LET compare_to == IF q_compare_to = "" THEN "previous" ELSE q_compare_to
        req == Served("/diff", q_run_id, q_compare_to)
        runs == scan.runs
        cache_key == <<q_run_id, compare_to>>
        hit == cache_key \in DOMAIN cache
        text200(index) == [req EXCEPT !.status = 200, !.content_type = "text/plain",
                                      !.scanned = TRUE, !.runs = runs, !.index = index]
        missing == [resp |-> [req EXCEPT !.status = 400,
                                         !.body = "Bad Request: run_id parameter is missing."],
                    cache |-> cache]
        raised == [resp |-> [req EXCEPT !.scanned = TRUE, !.raised = TRUE], cache |-> cache]
        notFound == [resp |-> [text200(0) EXCEPT !.body = "Run ID not found."], cache |-> cache]
        cached(index) == [resp |-> [text200(index) EXCEPT !.body = cache[cache_key], !.hit = TRUE],
                          cache |-> cache]
        fresh(index) ==
            The({([resp |-> [text200(index) EXCEPT !.body = computed.diff_text,
                                                   !.compare_label = computed.compare_label,
                                                   !.prev_code = computed.prev_code,
                                                   !.current_code = computed.current_code],
                   cache |-> DictSet(cache, cache_key, computed.diff_text)])
                 : computed \in {ComputeDiff(runs, index, compare_to)}})
    IN IF q_run_id = "" THEN missing
       ELSE IF scan.raised THEN raised
       ELSE The({(IF index = 0 THEN notFound
                  ELSE IF hit THEN cached(index)
                  ELSE fresh(index))
                 : index \in {IndexOf(runs, q_run_id)}})

\* DoData listing only the runs that diff_cache holds a text for
DoData_CachedOnly(scan) ==
    LET req == [Served("/data", "", "") EXCEPT !.scanned = TRUE]
        summary(run) == [run_id |-> run.run_id, timestamp |-> run.timestamp, data |-> run.data]
        cached == SelectSeq(scan.runs, LAMBDA run : \E k \in DOMAIN diff_cache : k[1] = run.run_id)
    IN IF scan.raised
       THEN [req EXCEPT !.raised = TRUE]
       ELSE [req EXCEPT !.status = 200, !.content_type = "application/json",
                        !.runs = scan.runs,
                        !.json = [i \in 1..Len(cached) |-> summary(cached[i])]]

\* the branch "elif parsed_path.path == '/data'": the runs without 'mtime' and 'code'
DoData(scan) ==
    LET req == [Served("/data", "", "") EXCEPT !.scanned = TRUE]
        summary(run) == [run_id |-> run.run_id, timestamp |-> run.timestamp, data |-> run.data]
    IN IF scan.raised
       THEN [req EXCEPT !.raised = TRUE]
       ELSE [req EXCEPT !.status = 200, !.content_type = "application/json",
                        !.runs = scan.runs,
                        !.json = [i \in 1..Len(scan.runs) |-> summary(scan.runs[i])]]

----------------------------------------------------------------------------
(* The server: requests are served one at a time (HTTPServer), between any *)
(* changes of the log directory                                            *)

\* the results parse_logs() may return on the directory, one per order of os.listdir
Scans == {parse_logs(fs, listing) : listing \in Listings(fs)}

\* the queries of /diff requests: without arguments, and for the runs "a" and
\* "b" with compare_to absent, "previous", "first" or unrecognized
Queries ==
    {[run_id |-> "", compare_to |-> ""]}
        \cup [run_id : {"a", "b"}, compare_to : {"", "previous", "first", "oldest"}]

\* the directory the server is started on: run "a" is newer than run "b"
InitialDir == [f \in FileNames |-> IF f = FileA THEN [mtime |-> 2, lines |-> LogXY]
                                                ELSE [mtime |-> 1, lines |-> LogX]]

parserVars == <<line, fields, sample, logfile, parsed>>

\* nothing parsed yet
Pending == [pending |-> TRUE]

ParserIdle ==
    /\ line = <<>>
    /\ fields = Pending
    /\ sample = Pending
    /\ logfile = <<>>
    /\ parsed = Pending

ServerIdle ==
    /\ fs = InitialDir
    /\ diff_cache = EmptyDict
    /\ last = NoRequest
    /\ lastDiff = EmptyDict
    /\ steps = 0

serverVars == <<fs, diff_cache, last, lastDiff, steps>>

Init ==
    /\ fs = InitialDir
    /\ diff_cache = EmptyDict
    /\ last = NoRequest
    /\ lastDiff = EmptyDict
    /\ steps = 0
    /\ ParserIdle

\* a log file is created or rewritten
WriteFile(f, t, c) ==
    /\ steps < MaxSteps
    /\ fs[f] # [mtime |-> t, lines |-> c]
    /\ fs' = [fs EXCEPT ![f] = [mtime |-> t, lines |-> c]]
    /\ steps' = steps + 1
    /\ UNCHANGED <<diff_cache, last, lastDiff, parserVars>>

\* a log file is deleted
DeleteFile(f) ==
    /\ steps < MaxSteps
    /\ fs[f] # NoFile
    /\ fs' = [fs EXCEPT ![f] = NoFile]
    /\ steps' = steps + 1
    /\ UNCHANGED <<diff_cache, last, lastDiff, parserVars>>

\* GET /
GetRoot ==
    /\ steps < MaxSteps
    /\ last' = [Served("/", "", "") EXCEPT !.status = 200, !.content_type = "text/html",
                                           !.body = "HTML_CONTENT"]
    /\ steps' = steps + 1
    /\ UNCHANGED <<fs, diff_cache, lastDiff, parserVars>>

\* GET /data
GetData ==
    /\ steps < MaxSteps
    /\ \E scan \in Scans : last' = DoData(scan)
    /\ steps' = steps + 1
    /\ UNCHANGED <<fs, diff_cache, lastDiff, parserVars>>

\* GET /diff?run_id=..&compare_to=..
GetDiff(q_run_id, q_compare_to) ==
    /\ steps < MaxSteps
    /\ \E scan \in Scans :
         \E out \in {DoDiff(scan, diff_cache, q_run_id, q_compare_to)} :
            /\ last' = out.resp
            /\ diff_cache' = out.cache
            /\ lastDiff' = IF out.resp.status = 200
                           THEN DictSet(lastDiff,
                                        <<q_run_id, IF q_compare_to = "" THEN "previous" ELSE q_compare_to>>,
                                        out.resp.body)
                           ELSE lastDiff
    /\ steps' = steps + 1
    /\ UNCHANGED <<fs, parserVars>>

\* GET of any other path
GetOther ==
    /\ steps < MaxSteps
    /\ last' = [Served("/other", "", "") EXCEPT !.status = 404,
                                                !.body = "File Not Found: /other"]
    /\ steps' = steps + 1
    /\ UNCHANGED <<fs, diff_cache, lastDiff, parserVars>>

Next ==
    \/ \E f \in FileNames, t \in Times, c \in Contents : WriteFile(f, t, c)
    \/ \E f \in FileNames : DeleteFile(f)
    \/ GetRoot
    \/ GetData
    \/ \E q \in Queries : GetDiff(q.run_id, q.compare_to)
    \/ GetOther

Spec == Init /\ [][Next]_vars

----------------------------------------------------------------------------
(* The parser of one line: the training script writes a line of the grammar *)
(*   step:<int>/<int> <token>:<float> [<token>:<float> ...]                 *)
(*       train_time:<float>ms step_avg:<float-or-"nan">ms                   *)
(* from the values it logs, and the server parses the line                  *)

NaN == [nan |-> TRUE]

DigitChar(d) == ToString(d)

RECURSIVE FormatInt(_)
\* the decimal digits of n >= 0
FormatInt(n) == IF n < 10 THEN <<DigitChar(n)>> ELSE FormatInt(n \div 10) \o <<DigitChar(n % 10)>>

RECURSIVE Zeros(_)
Zeros(n) == IF n <= 0 THEN <<>> ELSE <<"0">> \o Zeros(n - 1)

\* the decimal v = digits / 10^exponent written with `places` fractional
\* digits (places >= v.exponent), as the format "%.<places>f" writes it;
\* without a "." when places = 0
FormatFloat(v, places) ==
    LET all == FormatInt(v.digits)
        padded == Zeros(v.exponent + 1 - Len(all)) \o all
        whole == SubSeq(padded, 1, Len(padded) - v.exponent)
        frac == SubSeq(padded, Len(padded) - v.exponent + 1, Len(padded)) \o Zeros(places - v.exponent)
    IN IF places = 0 THEN whole ELSE whole \o <<".">> \o frac

\* a <float> token: a value and the number of fractional digits it is written with
Floats ==
    {[value |-> [digits |-> 25, exponent |-> 1], places |-> 1],
     [value |-> [digits |-> 25, exponent |-> 1], places |-> 2],
     [value |-> [digits |-> 3, exponent |-> 0], places |-> 0],
     [value |-> [digits |-> 1000, exponent |-> 0], places |-> 1],
     [value |-> [digits |-> 5, exponent |-> 2], places |-> 2]}

N_val_loss == <<"v", "a", "l", "_", "l", "o", "s", "s">>
N_train_loss == <<"t", "r", "a", "i", "n", "_", "l", "o", "s", "s">>
N_lr == <<"l", "r">>

\* the values one log line is written from
LineFields ==
    [step : {0, 7, 120},
     total_steps : {10, 120},
     metric_name : {N_val_loss, N_train_loss},
     metric_value : Floats,
     extras : {<<>>, <<[name |-> N_lr, value |-> [value |-> [digits |-> 1, exponent |-> 1], places |-> 1]]>>},
     train_time : {f \in Floats : f.places <= 1},
     step_avg : {NaN} \cup {f \in Floats : f.places = 1}]

RECURSIVE FormatExtras(_)
FormatExtras(xs) ==
    IF xs = <<>>
    THEN <<>>
    ELSE <<" ">> \o Head(xs).name \o <<":">> \o FormatFloat(Head(xs).value.value, Head(xs).value.places)
         \o FormatExtras(Tail(xs))

\* the line of the grammar for the values f, with its line terminator
FormatLine(f) ==
    L_step \o FormatInt(f.step) \o <<"/">> \o FormatInt(f.total_steps)
    \o <<" ">> \o f.metric_name \o <<":">> \o FormatFloat(f.metric_value.value, f.metric_value.places)
    \o FormatExtras(f.extras)
    \o L_train_time \o FormatFloat(f.train_time.value, f.train_time.places)
    \o L_ms_step_avg
    \o (IF f.step_avg = NaN THEN <<"n", "a", "n">> ELSE FormatFloat(f.step_avg.value, f.step_avg.places))
    \o L_ms \o <<"\n">>

LineInit ==
    /\ ServerIdle
    /\ ParserIdle

\* the training script logs one line
WriteLine(f) ==
    /\ fields = Pending
    /\ fields' = f
    /\ line' = FormatLine(f)
    /\ sample' = Pending
    /\ UNCHANGED <<serverVars, logfile, parsed>>

\* the server parses the line (a line of the metrics region)
ParseLineStep ==
    /\ fields # Pending
    /\ sample = Pending
    /\ sample' = ParseLine(line)
    /\ UNCHANGED <<serverVars, line, fields, logfile, parsed>>

LineNext ==
    \/ \E f \in LineFields : WriteLine(f)
    \/ ParseLineStep

SpecLine == LineInit /\ [][LineNext]_vars

----------------------------------------------------------------------------
(* The extractor of one file: a log file grows line by line and is parsed *)

\* a sentinel with blanks around it, and a rule one "=" short of a sentinel
PaddedSentinelLine == <<" ">> \o Sentinel \o <<" ", "\n">>
ShortRuleLine == SubSeq(Sentinel, 2, Len(Sentinel)) \o <<"\n">>

LinePool == {SentinelLine, PaddedSentinelLine, ShortRuleLine, MetricLine, LineX, LineY}

FileInit ==
    /\ ServerIdle
    /\ ParserIdle

\* the training script appends a line to the log file
AppendLine(l) ==
    /\ Len(logfile) < MaxLines
    /\ parsed = Pending
    /\ logfile' = Append(logfile, l)
    /\ UNCHANGED <<serverVars, line, fields, sample, parsed>>

\* the server parses the file as it stands
ParseFileStep ==
    /\ parsed = Pending
    /\ parsed' = ParseFile(logfile)
    /\ UNCHANGED <<serverVars, line, fields, sample, logfile>>

FileNext ==
    \/ \E l \in LinePool : AppendLine(l)
    \/ ParseFileStep

SpecFile == FileInit /\ [][FileNext]_vars

----------------------------------------------------------------------------
(* The parser of one line the regular expression may accept: the tokens of *)
(* the line are drawn from the character classes of LOG_LINE_REGEX         *)

T_1 == <<"1">>
T_007 == <<"0", "0", "7">>
T_10 == <<"1", "0">>
T_3 == <<"3">>
T_2_5 == <<"2", ".", "5">>
T_5_ == <<"5", ".">>
T__5 == <<".", "5">>
T_dot == <<".">>
T_1_2_3 == <<"1", ".", "2", ".", "3">>
T_n == <<"n">>
T_nan == <<"n", "a", "n">>

\* words of [\d\.]+, and of [\d\.n]+ together with "nan"
NumTokens == {T_3, T_2_5, T_5_, T__5, T_dot, T_1_2_3}
AvgTokens == NumTokens \cup {T_n, T_nan}

\* the tokens one line is written from
RawFields ==
    [step : {T_1, T_007},
     total_steps : {T_10},
     metric_name : {N_val_loss},
     metric_value : NumTokens,
     train_time : NumTokens,
     step_avg : AvgTokens]

\* the line "step:<step>/<total_steps> <name>:<value> train_time:<t>ms step_avg:<a>ms"
RawLine(f) ==
    L_step \o f.step \o <<"/">> \o f.total_steps
    \o <<" ">> \o f.metric_name \o <<":">> \o f.metric_value
    \o L_train_time \o f.train_time
    \o L_ms_step_avg \o f.step_avg
    \o L_ms \o <<"\n">>

RawInit ==
    /\ ServerIdle
    /\ ParserIdle

\* a line of these tokens stands in a log file
WriteRawLine(f) ==
    /\ fields = Pending
    /\ fields' = f
    /\ line' = RawLine(f)
    /\ sample' = Pending
    /\ UNCHANGED <<serverVars, logfile, parsed>>

RawNext ==
    \/ \E f \in RawFields : WriteRawLine(f)
    \/ ParseLineStep

SpecRaw == RawInit /\ [][RawNext]_vars

----------------------------------------------------------------------------
(* The extractor of one file without code blocks: a log of metric lines, *)
(* other lines, and lines whose numbers are malformed                    *)

\* a second line of the grammar, and a line the regular expression accepts
\* whose metric value is "1.2.3"
MetricLine2 ==
    RawLine([step |-> T_007, total_steps |-> T_10, metric_name |-> N_train_loss,
             metric_value |-> T_3, train_time |-> T_2_5, step_avg |-> T__5])
BadNumberLine ==
    RawLine([step |-> T_1, total_steps |-> T_10, metric_name |-> N_val_loss,
             metric_value |-> T_1_2_3, train_time |-> T_3, step_avg |-> T_3])

MetricsPool == {MetricLine, MetricLine2, BadNumberLine, LineX, ShortRuleLine}

MetricsInit ==
    /\ ServerIdle
    /\ ParserIdle

MetricsNext ==
    \/ \E l \in MetricsPool : AppendLine(l)
    \/ ParseFileStep

SpecMetrics == MetricsInit /\ [][MetricsNext]_vars

----------------------------------------------------------------------------
(* The scan of a directory that also holds a file that is not a .txt file *)

FileNotes == <<"n", "o", "t", "e", "s", ".", "l", "o", "g">>
ScanNames == FileNames \cup {FileNotes}

\* the directory of the log files and a newer file notes.log
ScanDir == [f \in ScanNames |-> IF f = FileNotes THEN [mtime |-> MaxTime, lines |-> LogX]
                                                 ELSE InitialDir[f]]

ScanInit ==
    /\ fs = ScanDir
    /\ diff_cache = EmptyDict
    /\ last = NoRequest
    /\ lastDiff = EmptyDict
    /\ steps = 0
    /\ ParserIdle

ScanNext ==
    \/ \E f \in ScanNames, t \in Times, c \in Contents : WriteFile(f, t, c)
    \/ \E f \in ScanNames : DeleteFile(f)
    \/ GetData

SpecScan == ScanInit /\ [][ScanNext]_vars

----------------------------------------------------------------------------
(* Properties of the /diff endpoint, checked under Spec *)

NotFoundText == "Run ID not found."
NoBaselineText == "No run available to compare."
NoDifferencesText == "No differences found."

\* the header line of a diff text and the blank line after it
Header(run_id, label) == "Comparing Run " \o run_id \o " to " \o label \o "\n\n"

\* the compare mode of a request: 'previous' when compare_to is absent
ModeOf(r) == IF r.compare_to = "" THEN "previous" ELSE r.compare_to

KeyOf(r) == <<r.run_id, ModeOf(r)>>

\* this step serves a request (every step counts, and a request leaves the directory alone)
RequestStep == steps' = steps + 1 /\ fs' = fs

\* this step answers a /diff request with a text
DiffAnswered == RequestStep /\ last'.path = "/diff" /\ last'.status = 200

\* the last request was a /diff request that found its run
FoundDiff == last.path = "/diff" /\ last.status = 200 /\ last.index # 0

\* ... and computed the diff text (cache miss)
ComputedDiff == FoundDiff /\ ~last.hit

\* the run ids of the .txt files in the directory
RunIdsIn(dir) ==
    {Flatten(SubSeq(f, 1, Len(f) - 4)) : f \in {g \in FileNames : dir[g] # NoFile /\ endswith(g, L_txt)}}

\* C1 as stated: a /diff call for a (runId, compareMode) that was answered
\* before returns the text of the previous answer for it, whatever happened
\* to the log files in between.
C1_SuccessiveDiffsIdentical ==
    [][DiffAnswered /\ KeyOf(last') \in DOMAIN lastDiff
          => last'.body = lastDiff[KeyOf(last')]]_vars

\* C1 amended: two successive /diff calls for the same (runId, compareMode)
\* that both find the run in their scan return the same text, whatever
\* happened to the log files in between.
C1_SuccessiveFoundDiffsIdentical ==
    [][(/\ DiffAnswered
        /\ KeyOf(last') \in DOMAIN lastDiff
        /\ last'.index # 0
        /\ lastDiff[KeyOf(last')] # NotFoundText)
          => last'.body = lastDiff[KeyOf(last')]]_vars

\* a repeated call is answered with the memoized text although the files
\* changed so that the diff computed now would be another text
C1_StaleTextServed ==
    /\ FoundDiff
    /\ last.hit
    /\ last.body # ComputeDiff(last.runs, last.index, ModeOf(last)).diff_text

\* C2: no step removes a key of diff_cache or changes the text stored under it.
C2_CacheAppendOnly ==
    [][\A k \in DOMAIN diff_cache : k \in DOMAIN diff_cache' /\ diff_cache'[k] = diff_cache[k]]_vars

\* an entry is still in diff_cache after its run's file was deleted and the
\* directory was scanned again for a /data request
C2_EntryOutlivesRun ==
    /\ last.path = "/data"
    /\ last.status = 200
    /\ \E k \in DOMAIN diff_cache : \A i \in 1..Len(last.runs) : last.runs[i].run_id # k[1]

\* C3: a /diff request with a run_id that no .txt file of the directory has
\* is answered 200 with "Run ID not found." and leaves diff_cache unchanged,
\* also when diff_cache holds an entry for its key.
C3_NotFound ==
    [][(/\ RequestStep
        /\ last'.path = "/diff"
        /\ last'.run_id # ""
        /\ last'.run_id \notin RunIdsIn(fs))
          => /\ last'.status = 200
             /\ last'.content_type = "text/plain"
             /\ last'.body = NotFoundText
             /\ diff_cache' = diff_cache]_vars

\* "Run ID not found." was answered while diff_cache holds an entry for the key
C3_NotFoundDespiteEntry ==
    /\ last.path = "/diff"
    /\ last.body = NotFoundText
    /\ KeyOf(last) \in DOMAIN diff_cache

\* C4: a /diff request without run_id is answered 400, not with the text
\* "Run ID not found.", without a directory scan, and leaves diff_cache
\* unchanged.
C4_MissingRunId ==
    [][(/\ RequestStep
        /\ last'.path = "/diff"
        /\ last'.run_id = "")
          => /\ last'.status = 400
             /\ last'.body # NotFoundText
             /\ ~last'.scanned
             /\ diff_cache' = diff_cache]_vars

\* a request without run_id was refused while diff_cache holds entries
C4_RefusedWithEntries ==
    /\ last.path = "/diff"
    /\ last.run_id = ""
    /\ last.status = 400
    /\ DOMAIN diff_cache # {}

\* C5: a diff computed for the oldest run against the first run, which is
\* the run itself, is "No differences found.", whatever the run's code.
C5_SelfDiffNoDifferences ==
    (ComputedDiff /\ ModeOf(last) = "first" /\ last.index = Len(last.runs))
        => last.body = Header(last.run_id, last.compare_label) \o NoDifferencesText

\* whether the scan has a baseline run for the request, and its code
HasBaseline ==
    \/ ModeOf(last) = "previous" /\ last.index < Len(last.runs)
    \/ ModeOf(last) = "first"

BaselineCode ==
    IF ModeOf(last) = "previous"
    THEN last.runs[last.index + 1].code
    ELSE last.runs[Len(last.runs)].code

\* C6: a computed diff has the body "No run available to compare." exactly
\* when there is no baseline run; with a baseline run the body is "No
\* differences found." when the two codes are equal and a unified diff
\* otherwise.
C6_BodyByBaseline ==
    ComputedDiff =>
        LET header == Header(last.run_id, last.compare_label)
            selected == last.runs[last.index].code
        IN /\ (last.body = header \o NoBaselineText) <=> ~HasBaseline
           /\ HasBaseline /\ BaselineCode = selected
                => last.body = header \o NoDifferencesText
           /\ HasBaseline /\ BaselineCode # selected
                => /\ last.body = header \o unified_diff(splitlines(BaselineCode), splitlines(selected),
                                                           last.compare_label, "Selected Run")
                   /\ last.body # header

\* C7: the scan is in descending order of mtime; for 'previous' the baseline
\* of a computed diff is the run after the selected one, which is the
\* next-older run, and there is none when the selected run is last; for
\* 'first' it is the last run, which no run is older than.
C7_BaselineChoice ==
    ComputedDiff =>
        LET runs == last.runs
            n == Len(runs)
            i == last.index
        IN /\ \A j, k \in 1..n : j < k => runs[j].mtime >= runs[k].mtime
           /\ ModeOf(last) = "previous" /\ i < n
                => /\ last.prev_code = splitlines(runs[i + 1].code)
                   /\ last.compare_label = "Previous Run"
                   /\ runs[i + 1].mtime <= runs[i].mtime
                   /\ ~\E j \in 1..n : /\ runs[j].mtime < runs[i].mtime
                                       /\ runs[j].mtime > runs[i + 1].mtime
           /\ ModeOf(last) = "previous" /\ i = n
                => /\ last.prev_code = <<>>
                   /\ last.compare_label = "No Run to Compare"
           /\ ModeOf(last) = "first"
                => /\ last.prev_code = splitlines(runs[n].code)
                   /\ last.compare_label = "First Run"
                   /\ \A j \in 1..n : runs[n].mtime <= runs[j].mtime

\* a diff against the first run computed for a run that is not the oldest,
\* the first run having another code than the newest
C7_FirstIsOldest ==
    /\ ComputedDiff
    /\ ModeOf(last) = "first"
    /\ last.index < Len(last.runs)
    /\ last.runs[1].code # last.runs[Len(last.runs)].code
    /\ last.runs[1].mtime > last.runs[Len(last.runs)].mtime

\* C8: a /diff request for a run of the scan with a compare_to other than
\* 'previous' and 'first' is answered 200 with the label "No Run to Compare"
\* and the body "No run available to compare.".
C8_UnrecognizedMode ==
    (FoundDiff /\ ModeOf(last) \notin {"previous", "first"})
        => /\ last.status = 200
           /\ last.body = Header(last.run_id, "No Run to Compare") \o NoBaselineText

\* an unrecognized compare_to was answered for a run that has an older run
C8_UnrecognizedWithOlderRun ==
    /\ FoundDiff
    /\ ModeOf(last) \notin {"previous", "first"}
    /\ last.index < Len(last.runs)

----------------------------------------------------------------------------
(* Properties of the line parser, checked under SpecLine *)

\* C9: the sample parsed from a line of the grammar has the step, metric
\* name, metric value and train time the line was written from, and its
\* step_avg is None exactly when the line says step_avg:nan; in particular
\* every such line yields a sample.
C9_GrammarLineParsed ==
    sample # Pending =>
        /\ sample \notin {NoMatch, ValueError}
        /\ sample.step = fields.step
        /\ sample.metric_name = Flatten(fields.metric_name)
        /\ sample.metric_value = fields.metric_value.value
        /\ sample.train_time = fields.train_time.value
        /\ (sample.step_avg = None) <=> (fields.step_avg = NaN)
        /\ fields.step_avg # NaN => sample.step_avg = fields.step_avg.value

----------------------------------------------------------------------------
(* Properties of the extractor, checked under SpecFile *)

IsSentinel(l) == Strip(l) = Sentinel

SentinelsBefore(i) == Cardinality({j \in 1..(i - 1) : IsSentinel(logfile[j])})

\* line i stands strictly between the two sentinels of a pair
InsidePair(i) == ~IsSentinel(logfile[i]) /\ SentinelsBefore(i) % 2 = 1

Balanced == SentinelsBefore(Len(logfile) + 1) % 2 = 0

RECURSIVE LinesInsidePairs(_)
\* the lines among the first k that stand inside a pair, concatenated
LinesInsidePairs(k) ==
    IF k = 0
    THEN <<>>
    ELSE LinesInsidePairs(k - 1) \o (IF InsidePair(k) THEN logfile[k] ELSE <<>>)

\* C10: the code of a file with an even number of sentinel lines is the
\* concatenation, in file order and with their terminators, of the lines
\* strictly between the sentinels of each pair.
C10_BalancedCode ==
    (parsed # Pending /\ Balanced)
        => /\ parsed # ValueError
           /\ parsed.code = LinesInsidePairs(Len(logfile))

\* a parsed file with a sentinel pair around a line and a line outside it
C10_PairWithCode ==
    /\ parsed # Pending
    /\ Balanced
    /\ \E i, j \in 1..Len(logfile) :
         /\ InsidePair(i)
         /\ ~IsSentinel(logfile[j]) /\ ~InsidePair(j)
    /\ parsed.code # <<>>

\* the position of the last sentinel line of the file, 0 when it has none
LastSentinel ==
    IF \E i \in 1..Len(logfile) : IsSentinel(logfile[i])
    THEN CHOOSE i \in 1..Len(logfile) :
             IsSentinel(logfile[i]) /\ \A j \in (i + 1)..Len(logfile) : ~IsSentinel(logfile[j])
    ELSE 0

\* the lines after the last sentinel line, concatenated
AfterLastSentinel == Join(SubSeq(logfile, LastSentinel + 1, Len(logfile)))

\* the samples of the lines among the first k that the grammar matches and
\* that stand after an even number of sentinel lines, in file order
RECURSIVE SamplesOutsideCode(_)
SamplesOutsideCode(k) ==
    IF k = 0
    THEN <<>>
    ELSE SamplesOutsideCode(k - 1)
         \o (IF /\ ~IsSentinel(logfile[k])
                /\ SentinelsBefore(k) % 2 = 0
                /\ ParseLine(logfile[k]) # NoMatch
             THEN <<ParseLine(logfile[k])>>
             ELSE <<>>)

\* C11 as stated: the code of a file with an odd number of sentinel lines is
\* what stands after the last sentinel line.
C11_CodeIsAfterLastSentinel ==
    (parsed # Pending /\ ~Balanced)
        => /\ parsed # ValueError
           /\ parsed.code = AfterLastSentinel

\* C11 amended: the code of a file with an odd number of sentinel lines is
\* the lines inside the sentinel pairs before the last sentinel line followed
\* by every line after the last sentinel line, and no line after the last
\* sentinel line yields a sample.
C11_UnterminatedBlock ==
    (parsed # Pending /\ ~Balanced)
        => /\ parsed # ValueError
           /\ parsed.code = LinesInsidePairs(LastSentinel - 1) \o AfterLastSentinel
           /\ parsed.data = SamplesOutsideCode(LastSentinel - 1)

\* a parsed file with three sentinel lines whose code holds a line of the
\* first pair
C11_EarlierBlockKept ==
    /\ parsed # Pending
    /\ ~Balanced
    /\ SentinelsBefore(Len(logfile) + 1) >= 3
    /\ LinesInsidePairs(LastSentinel - 1) # <<>>
    /\ parsed.code # AfterLastSentinel

----------------------------------------------------------------------------
(* Properties of the extractor on files without code blocks, checked under *)
(* SpecMetrics                                                              *)

\* the line is accepted by the regular expression (after strip, as the parser applies it)
Accepted(l) == LOG_LINE_REGEX(Strip(l)) # NoMatch

\* C12: a file without sentinel lines has the code "" and one sample for
\* every line the regular expression accepts, in the order of the lines.
C12_NoSentinels ==
    (parsed # Pending /\ LastSentinel = 0)
        => /\ parsed # ValueError
           /\ parsed.code = <<>>
           /\ parsed.data = SamplesOutsideCode(Len(logfile))
           /\ Len(parsed.data) = Cardinality({i \in 1..Len(logfile) : Accepted(logfile[i])})

----------------------------------------------------------------------------
(* Properties of the line parser on accepted lines, checked under SpecRaw *)

\* C15: parsing a line that LOG_LINE_REGEX accepts raises no conversion
\* error: the line yields a sample.
C15_AcceptedLineConverts ==
    (sample # Pending /\ Accepted(line)) => sample # ValueError

----------------------------------------------------------------------------
(* Properties of the scan, checked under SpecScan *)

\* the .txt files present in the directory
Eligible(dir) == {f \in DOMAIN dir : dir[f] # NoFile /\ endswith(f, L_txt)}

\* C13: the result of a scan holds, for every .txt file of the directory at
\* the time of the scan, exactly one run, with the file's modification time,
\* and no other run; a run with a larger modification time stands before a
\* run with a smaller one.
C13_ScanOrdered ==
    [][(RequestStep /\ last'.scanned /\ ~last'.raised)
          => LET runs == last'.runs
                 n == Len(runs)
             IN /\ \A j, k \in 1..n : runs[j].mtime > runs[k].mtime => j < k
                /\ n = Cardinality(Eligible(fs))
                /\ \A f \in Eligible(fs) :
                     \E j \in 1..n : /\ runs[j].run_id = Flatten(SubSeq(f, 1, Len(f) - 4))
                                     /\ runs[j].mtime = fs[f].mtime]_vars

\* a scan of a directory that holds notes.log returned two runs of
\* different modification times
C13_TwoRunsAndOtherFile ==
    /\ last.path = "/data"
    /\ last.status = 200
    /\ fs[FileNotes] # NoFile
    /\ Len(last.runs) = 2
    /\ last.runs[1].mtime > last.runs[2].mtime
    /\ \A j \in 1..2 : fs[FileNotes].mtime >= last.runs[j].mtime

----------------------------------------------------------------------------
(* Properties of diff_cache, checked under Spec *)

\* C14: every key of diff_cache is a pair of a run id and one of the compare
\* modes "previous" and "first".
C14_CacheKeysAreModes ==
    \A k \in DOMAIN diff_cache : k[2] \in {"previous", "first"}

\* text begins with prefix
BeginsWith(text, prefix) ==
    Len(text) >= Len(prefix) /\ SubSeq(text, 1, Len(prefix)) = prefix

\* the header line of the diff text of run_id under label
HeaderLine(run_id, label) == "Comparing Run " \o run_id \o " to " \o label \o "\n"

\* C16: the text a step stores in diff_cache under (runId, compareMode)
\* begins with the line "Comparing Run <runId> to <label>", where the label
\* is "Previous Run" when the run after runId in the scan was taken as the
\* baseline, "First Run" when the last run of the scan was taken for the mode
\* "first", and "No Run to Compare" when no baseline was taken; and every
\* stored text begins with "Comparing Run <runId> to " for the runId of its key.
C16_StoredHeader ==
    [][/\ \A k \in DOMAIN diff_cache' :
            BeginsWith(diff_cache'[k], "Comparing Run " \o k[1] \o " to ")
       /\ \A k \in DOMAIN diff_cache' \ DOMAIN diff_cache :
            LET olderRun == last'.index < Len(last'.runs)
                label == IF k[2] = "previous" /\ olderRun THEN "Previous Run"
                         ELSE IF k[2] = "first" THEN "First Run"
                         ELSE "No Run to Compare"
            IN /\ k = KeyOf(last')
               /\ BeginsWith(diff_cache'[k], HeaderLine(k[1], label))
               /\ label = "No Run to Compare" => last'.prev_code = <<>>]_vars

\* diff_cache holds, for the mode "previous", a text with the label
\* "Previous Run" and a text with the label "No Run to Compare"
C16_BothLabelsStored ==
    \E k1, k2 \in DOMAIN diff_cache :
        /\ k1[2] = "previous"
        /\ k2[2] = "previous"
        /\ BeginsWith(diff_cache[k1], HeaderLine(k1[1], "Previous Run"))
        /\ BeginsWith(diff_cache[k2], HeaderLine(k2[1], "No Run to Compare"))

----------------------------------------------------------------------------
(* The partition of a file's lines, checked under SpecFile *)

\* line i is a non-sentinel line after an even number of sentinel lines
InMetrics(i) == ~IsSentinel(logfile[i]) /\ SentinelsBefore(i) % 2 = 0

\* C17: the code of a file is the concatenation of its non-sentinel lines
\* that stand after an odd number of sentinel lines, as they are, and its
\* samples are those of its non-sentinel lines that stand after an even
\* number of sentinel lines: no sentinel line and no line of the other
\* parity is in either.
C17_PartitionByParity ==
    parsed # Pending
        => /\ parsed # ValueError
           /\ parsed.code = LinesInsidePairs(Len(logfile))
           /\ parsed.data = SamplesOutsideCode(Len(logfile))
           /\ Len(parsed.data) = Cardinality({i \in 1..Len(logfile) :
                                                 InMetrics(i) /\ logfile[i] = MetricLine})

\* a parsed file with a metric line inside a code block, which is part of
\* the code, and a metric line outside, which is the only sample
C17_MetricLineInCode ==
    /\ parsed # Pending
    /\ \E i, j \in 1..Len(logfile) :
         /\ logfile[i] = MetricLine /\ InsidePair(i)
         /\ logfile[j] = MetricLine /\ InMetrics(j)
    /\ Len(parsed.data) = 1
    /\ parsed.code = MetricLine

----------------------------------------------------------------------------
(* The /data endpoint, checked under Spec *)

\* the entry of the /data response for the .txt file f of the directory dir
Summary(dir, f) ==
    [run_id |-> Flatten(SubSeq(f, 1, Len(f) - 4)),
     timestamp |-> strftime(dir[f].mtime),
     data |-> ParseFile(dir[f].lines).data]

\* C18: a /data request is answered from the directory as it is at the time
\* of the request and from nothing else: the response lists exactly the .txt
\* files present, each with the samples of its present content, whatever
\* requests were served before and whatever diff_cache holds, and the request
\* leaves diff_cache unchanged; a file that was deleted is not listed.
C18_DataFromDirectoryOnly ==
    [][(RequestStep /\ last'.path = "/data")
          => /\ diff_cache' = diff_cache
             /\ last'.status = 200
             /\ Len(last'.json) = Cardinality(Eligible(fs))
             /\ \A f \in Eligible(fs) :
                  \E j \in 1..Len(last'.json) : last'.json[j] = Summary(fs, f)
             /\ \A f \in DOMAIN fs :
                  fs[f] = NoFile
                      => \A j \in 1..Len(last'.json) :
                           last'.json[j].run_id # Flatten(SubSeq(f, 1, Len(f) - 4))]_vars

\* a /data request was answered after a /diff request filled diff_cache and
\* b.txt was deleted: the response lists the one remaining run
C18_DataAfterDiffAndDelete ==
    /\ last.path = "/data"
    /\ last.status = 200
    /\ DOMAIN diff_cache # {}
    /\ fs[FileB] = NoFile
    /\ Len(last.json) = 1
    /\ last.json[1].run_id = "a"

====
